---- MODULE Spec2Model ----
(***************************************************************************)
(* Tercile-probability engine of regional_mom6.                            *)
(*                                                                         *)
(*   mom6_process.py          class mom6_forecast: file selection          *)
(*                            (get_mom6) and calculate_tercile_prob        *)
(*   mom6_regional_tercile.py the batch script that builds the regional    *)
(*                            climatological tercile boundaries            *)
(*                                                                         *)
(* Text is a sequence of one-character strings, so that Python's           *)
(* substring test `a in b`, f-string formatting and slicing are computed.  *)
(* Numbers are exact rationals [n, d] in lowest terms; NaN is a value of   *)
(* its own that every arithmetic operation propagates.                     *)
(***************************************************************************)
EXTENDS Integers, Sequences, FiniteSets, TLC

\* ------------------------------------------------------------------ text

\* Python: a in b, for two strings.
IsSubstr(a, b) ==
    \E i \in 0..(Len(b) - Len(a)) : SubSeq(b, i + 1, i + Len(a)) = a

Digit(k) ==
    <<"0", "1", "2", "3", "4", "5", "6", "7", "8", "9">>[k + 1]

\* Python: f"{n}" of a non-negative int.
RECURSIVE IntToStr(_)
IntToStr(n) ==
    IF n < 10 THEN <<Digit(n)>> ELSE IntToStr(n \div 10) \o <<Digit(n % 10)>>

\* ------------------------------------------------------------- numbers

NaN == [n |-> 0, d |-> 0]

IsNaN(x) == x.d = 0

Abs(k) == IF k < 0 THEN -k ELSE k

RECURSIVE GCD(_, _)
GCD(a, b) == IF b = 0 THEN a ELSE GCD(b, a % b)

\* The rational n/d in lowest terms with a positive denominator; 0/0 and
\* x/0 are NaN (numpy: 0./0. is nan; no model input divides a non-zero
\* number by zero).
Rat(n, d) ==
    IF d = 0 THEN NaN
    ELSE LET g == GCD(Abs(n), Abs(d))
             s == IF d < 0 THEN -1 ELSE 1
         IN  [n |-> s * (n \div g), d |-> s * (d \div g)]

Int2Rat(k) == [n |-> k, d |-> 1]

RAdd(x, y) ==
    IF IsNaN(x) \/ IsNaN(y) THEN NaN ELSE Rat(x.n * y.d + y.n * x.d, x.d * y.d)

RSub(x, y) ==
    IF IsNaN(x) \/ IsNaN(y) THEN NaN ELSE Rat(x.n * y.d - y.n * x.d, x.d * y.d)

RMul(x, y) ==
    IF IsNaN(x) \/ IsNaN(y) THEN NaN ELSE Rat(x.n * y.n, x.d * y.d)

RDiv(x, y) ==
    IF IsNaN(x) \/ IsNaN(y) THEN NaN ELSE Rat(x.n * y.d, x.d * y.n)

\* x <= y; false when either is NaN, as every IEEE comparison with nan.
RLe(x, y) == ~IsNaN(x) /\ ~IsNaN(y) /\ x.n * y.d <= y.n * x.d

RLt(x, y) == ~IsNaN(x) /\ ~IsNaN(y) /\ x.n * y.d < y.n * x.d

\* Sum of f[i] over the finite set S of indices (0 for the empty set).
RECURSIVE RSum(_, _)
RSum(f, S) ==
    IF S = {} THEN Int2Rat(0)
    ELSE LET i == CHOOSE j \in S : TRUE
         IN  RAdd(f[i], RSum(f, S \ {i}))

\* numpy/xarray mean over an index set: nan for the empty set.
RMean(f, S) == RDiv(RSum(f, S), Int2Rat(Cardinality(S)))

\* ------------------------------------------------- mom6_forecast: state

VARIABLES
    var,          \* self.var
    iyear,        \* self.iyear
    imonth,       \* self.imonth
    source,       \* self.source: "raw" or "regrid"
    pc,           \* position in get_mom6 / calculate_tercile_prob
    file_list,    \* get_mom6: the candidate files
    fidx,         \* get_mom6: index of the file the loop is at (1-based)
    ds,           \* get_mom6: the local `ds` (Unbound until assigned)
    ds_static,    \* get_mom6: whether ocean_static.nc has been opened
    opened,       \* forecast files opened so far, in order
    outcome       \* "running", "returned", or the exception raised

getVars == <<var, iyear, imonth, source, pc, file_list, fidx, ds, ds_static,
             opened, outcome>>

\* ------------------------- mom6_forecast.calculate_tercile_prob: state

VARIABLES
    lead_bins,           \* the argument: [given |-> FALSE] is None
    da_data,             \* ds_data[var].isel(init=0): member x lead
    da_binned,           \* member x lead_bin
    da_mean,             \* per lead_bin
    da_std,              \* per lead_bin, as [sq |-> the variance]
    ds_tercile,          \* [f_lowmid, f_midhigh], each per lead
    ds_tercile_binned,   \* [f_lowmid, f_midhigh], each per lead_bin
    tercile_prob,        \* per lead_bin: <<lower, middle, upper>>
    tercile_prob_max     \* per lead_bin

probVars == <<lead_bins, da_data, da_binned, da_mean, da_std, ds_tercile,
              ds_tercile_binned, tercile_prob, tercile_prob_max>>

\* ------------------------------------------ mom6_regional_tercile: state

VARIABLES
    varname,             \* sys.argv[1]
    var_file_list,       \* the files of file_list whose name holds varname
    file,                \* index in var_file_list of the file being processed
    ds_mask,             \* the region masks and 'areacello'
    da,                  \* the local `da` of the file loop's body
    region,              \* index in the mask store's keys of the region loop
    reg_tercile_list,    \* per region processed: <<f_lowmid, f_midhigh>>
    reg_list,            \* the regions processed
    written,             \* the output files written, in order
    printed              \* the lines printed, in order

builderVars == <<varname, var_file_list, file, ds_mask, da, region,
                 reg_tercile_list, reg_list, written, printed>>

vars == <<getVars, probVars, builderVars>>

\* ------------------------------------------------ mom6_forecast.get_mom6

RAW_DIR == <<"/", "D", "a", "t", "a", "s", "e", "t", "s", ".", "p", "r", "i", "v", "a", "t", "e", "/", "r", "e", "g", "i", "o", "n", "a", "l", "_", "m", "o", "m", "6", "/", "h", "i", "n", "d", "c", "a", "s", "t", "/">>

REGRID_DIR == RAW_DIR \o <<"r", "e", "g", "r", "i", "d", "/">>

TOB == <<"t", "o", "b">>

TOS == <<"t", "o", "s">>

FORECASTS_I == <<"_", "f", "o", "r", "e", "c", "a", "s", "t", "s", "_", "i">>

DOT_NC == <<".", "n", "c">>

\* range(3,13,3)
InitMonths == <<3, 6, 9, 12>>

\* [f"{v}_forecasts_i{mon}.nc" for mon in range(3,13,3)]
VarFiles(v) ==
    [k \in 1..Len(InitMonths) |-> v \o FORECASTS_I \o IntToStr(InitMonths[k]) \o DOT_NC]

mom6_hindcast(hindcast_dir) ==
    LET hpoint_file_list == VarFiles(TOB) \o VarFiles(TOS)
    IN  [k \in 1..Len(hpoint_file_list) |-> hindcast_dir \o hpoint_file_list[k]]

\* The local `ds` before any assignment.
Unbound == [file |-> <<>>, init |-> "unbound", static |-> FALSE]

\* The archive holds one initialization per year of 1993-2022 in each file,
\* all of the file's own month.
ArchiveYears == 1993..2022

\* The initialization month of the k-th file of mom6_hindcast's list.
FileMonth(k) == InitMonths[((k - 1) % Len(InitMonths)) + 1]

\* xr.open_dataset(file).sel(init=f'{iyear}-{imonth}'): a partial-date
\* string selects the slice of the inits of that year and month.  It is a
\* KeyError when the date lies outside the index's range, an empty slice
\* when it lies inside and no init of the file has that month.
Sel(k, year, month) ==
    IF year \notin ArchiveYears THEN "KeyError"
    ELSE IF FileMonth(k) = month THEN "one" ELSE "empty"

imon_flag(fname, month) == IsSubstr(<<"i">> \o IntToStr(month), fname)

var_flag(fname, v) == IsSubstr(v, fname)

\* One iteration of `for file in file_list`, on st = [ds, opened, outcome].
LoopBody(st, files, k, v, year, month) ==
    IF imon_flag(files[k], month) /\ var_flag(files[k], v)
    THEN IF Sel(k, year, month) = "KeyError"
         THEN [ds |-> st.ds, opened |-> Append(st.opened, files[k]),
               outcome |-> "KeyError"]
         ELSE [ds |-> [file |-> files[k], init |-> Sel(k, year, month),
                       static |-> FALSE],
               opened |-> Append(st.opened, files[k]),
               outcome |-> st.outcome]
    ELSE st

\* After the loop: xr.merge([ds_static, ds]) for 'raw', then `return ds`.
\* Reading the local ds before any assignment raises UnboundLocalError.
AfterLoop(st, src) ==
    IF st.ds = Unbound
    THEN [st EXCEPT !.outcome = "UnboundLocalError"]
    ELSE [st EXCEPT !.outcome = "returned",
                    !.ds = [st.ds EXCEPT !.static = (src = "raw")]]

MomDir(src) == IF src = "raw" THEN RAW_DIR ELSE REGRID_DIR

\* Position `loop`: one iteration whose file matches both flags.
LoopMatch ==
    /\ pc = "loop"
    /\ fidx <= Len(file_list)
    /\ imon_flag(file_list[fidx], imonth) /\ var_flag(file_list[fidx], var)
    /\ LET st == LoopBody([ds |-> ds, opened |-> opened, outcome |-> outcome],
                          file_list, fidx, var, iyear, imonth)
       IN  /\ ds' = st.ds
           /\ opened' = st.opened
           /\ outcome' = st.outcome
           /\ pc' = IF st.outcome = "running" THEN "loop" ELSE "done"
    /\ fidx' = fidx + 1
    /\ UNCHANGED <<var, iyear, imonth, source, file_list, ds_static>>
    /\ UNCHANGED <<probVars, builderVars>>

\* Position `loop`: one iteration whose file fails a flag.
LoopSkip ==
    /\ pc = "loop"
    /\ fidx <= Len(file_list)
    /\ ~(imon_flag(file_list[fidx], imonth) /\ var_flag(file_list[fidx], var))
    /\ fidx' = fidx + 1
    /\ UNCHANGED <<var, iyear, imonth, source, pc, file_list, ds, ds_static,
                   opened, outcome>>
    /\ UNCHANGED <<probVars, builderVars>>

\* The statements before the loop: the file list and, for 'raw', the
\* static field.
Begin ==
    /\ pc = "start"
    /\ source \in {"raw", "regrid"}
    /\ file_list' = mom6_hindcast(MomDir(source))
    /\ ds_static' = (source = "raw")
    /\ fidx' = 1
    /\ pc' = "loop"
    /\ UNCHANGED <<var, iyear, imonth, source, ds, opened, outcome>>
    /\ UNCHANGED <<probVars, builderVars>>

\* The statements after the loop.
Finish ==
    /\ pc = "loop"
    /\ fidx > Len(file_list)
    /\ LET st == AfterLoop([ds |-> ds, opened |-> opened, outcome |-> outcome],
                           source)
       IN  /\ ds' = st.ds
           /\ outcome' = st.outcome
    /\ pc' = "done"
    /\ UNCHANGED <<var, iyear, imonth, source, file_list, fidx, ds_static, opened>>
    /\ UNCHANGED <<probVars, builderVars>>

\* ----------------------------------- mom6_forecast.calculate_tercile_prob

\* Bounds of the inputs: the lead axis 0..NLeads-1, the ensemble size, and
\* the largest member level and lead effect of a forecast field.
NLeads == 3

NMembers == 2

MaxVal == 1

Leads == 0..(NLeads - 1)

Members == 1..NMembers

Vals == 0..MaxVal

\* A value not yet computed.
None == [given |-> FALSE]

NoBins == [given |-> FALSE, edges |-> <<>>]

Bins(edges) == [given |-> TRUE, edges |-> edges]

\* get_init_fcst_time's default lead_bins.
DefaultLeadBins == <<0, 3, 6, 9, 12>>

\* np.arange(0,len(lead_bins)-1)
lead_bin_label(edges) == 0..(Len(edges) - 2)

\* The faulty variant right=False of CutRight: [edge[w], edge[w+1]).
CutLeft(leads, edges, w) ==
    {l \in leads : edges[w + 1] <= l /\ l < edges[w + 2]}

\* The leads pandas.cut(right=True) puts in window w: (edge[w], edge[w+1]].
\* include_lowest is False, so a lead equal to the first edge is in none.
CutRight(leads, edges, w) ==
    {l \in leads : edges[w + 1] < l /\ l <= edges[w + 2]}

\* arr.groupby_bins('lead', lead_bins, labels=lead_bin_label, right=True)
\*    .mean('lead'), for arr indexed by lead: a window with no lead is nan.
GroupbyBinsMean(arr, edges) ==
    [w \in lead_bin_label(edges) |-> RMean(arr, CutRight(DOMAIN arr, edges, w))]

\* Lines 270-286 (and 299-308): rename or bin one lead-indexed array.
Binned(arr, bins) ==
    IF bins.given THEN GroupbyBinsMean(arr, bins.edges) ELSE arr

\* da_binned.mean('member')
MemberMean(binned) ==
    [w \in DOMAIN binned[1] |->
        RMean([m \in DOMAIN binned |-> binned[m][w]], DOMAIN binned)]

\* da_binned.std('member'): ddof=0, the square root of the mean squared
\* deviation.  The value is kept as its square.
MemberStd(binned) ==
    [w \in DOMAIN binned[1] |->
        LET mean == MemberMean(binned)[w]
            dev2 == [m \in DOMAIN binned |->
                        RMul(RSub(binned[m][w], mean), RSub(binned[m][w], mean))]
        IN  [sq |-> RMean(dev2, DOMAIN binned)]]

\* Whether 2*(x - loc)/scale >= k, for t = x - loc and scale = sqrt(v) > 0.
TwoZAtLeast(k, t, v) ==
    IF k >= 0
    THEN t.n >= 0 /\ 4 * t.n * t.n * v.d >= k * k * v.n * t.d * t.d
    ELSE t.n >= 0 \/ 4 * t.n * t.n * v.d <= k * k * v.n * t.d * t.d

\* The standard normal CDF in thousandths at z = -3.5, -3, ..., 3.5, with 0
\* below -3.5.
PhiTable ==
    <<0, 0, 1, 6, 23, 67, 159, 309, 500, 691, 841, 933, 977, 994, 999, 1000>>

ZGrid == -7..7

\* scipy.stats.norm(loc, scale).cdf(x): nan where an argument is nan or
\* scale is not positive; else Phi((x-loc)/scale), here read off PhiTable at
\* the grid point at or below z (non-decreasing in x, 0 to 1).
NormCdf(x, loc, scale) ==
    IF IsNaN(x) \/ IsNaN(loc) \/ IsNaN(scale.sq) \/ scale.sq.n <= 0
    THEN NaN
    ELSE LET t == RSub(x, loc)
             passed == Cardinality({k \in ZGrid : TwoZAtLeast(k, t, scale.sq)})
         IN  Rat(PhiTable[passed + 1], PhiTable[Len(PhiTable)])

One == Int2Rat(1)

\* Lines 315-326.
LowTercileProb(loc, scale, tercile) ==
    [w \in DOMAIN loc |-> NormCdf(tercile.f_lowmid[w], loc[w], scale[w])]

UpTercileProb(loc, scale, tercile) ==
    [w \in DOMAIN loc |-> RSub(One, NormCdf(tercile.f_midhigh[w], loc[w], scale[w]))]

\* A faulty variant of MidTercileProb: the lower tail is not subtracted.
MidTercileProbNoLow(low, up) ==
    [w \in DOMAIN low |-> RSub(One, up[w])]

\* Line 328.
MidTercileProb(low, up) ==
    [w \in DOMAIN low |-> RSub(RSub(One, up[w]), low[w])]

\* pd.Index([-1,0,1],name="tercile")
TercileIndex == <<-1, 0, 1>>

\* xr.concat([low, mid, up], ...): per lead_bin, the three in this order.
Concat(low, mid, up) ==
    [w \in DOMAIN low |-> <<low[w], mid[w], up[w]>>]

\* p.max(dim='tercile') of one cell: the largest value that is not nan, nan
\* when all are nan.
TercileMax(p) ==
    IF \A i \in DOMAIN p : IsNaN(p[i]) THEN NaN
    ELSE LET i == CHOOSE j \in DOMAIN p :
                    /\ ~IsNaN(p[j])
                    /\ \A h \in DOMAIN p : IsNaN(p[h]) \/ RLe(p[h], p[j])
         IN  p[i]

\* A faulty variant of TercileIdxmax: the last position holding the maximum.
TercileIdxmaxLast(p) ==
    IF \A i \in DOMAIN p : IsNaN(p[i]) THEN NaN
    ELSE LET last == CHOOSE j \in DOMAIN p :
                        /\ p[j] = TercileMax(p)
                        /\ \A h \in (j + 1)..Len(p) : p[h] # TercileMax(p)
         IN  Int2Rat(TercileIndex[last])

\* p.idxmax(dim='tercile', fill_value=np.nan) of one cell: the label at the
\* first position holding the maximum (argmax), nan when all are nan.
TercileIdxmax(p) ==
    IF \A i \in DOMAIN p : IsNaN(p[i]) THEN NaN
    ELSE LET first == CHOOSE j \in DOMAIN p :
                        /\ p[j] = TercileMax(p)
                        /\ \A h \in 1..(j - 1) : p[h] # TercileMax(p)
         IN  Int2Rat(TercileIndex[first])

\* Lines 338-341.
ProbMax(prob) ==
    [w \in DOMAIN prob |-> RMul(TercileIdxmax(prob[w]), TercileMax(prob[w]))]

\* The whole loop of get_mom6 from file k on: an exception ends it.
RECURSIVE RunLoop(_, _, _, _, _, _)
RunLoop(st, files, k, v, year, month) ==
    IF k > Len(files) \/ st.outcome # "running" THEN st
    ELSE RunLoop(LoopBody(st, files, k, v, year, month), files, k + 1, v, year, month)

\* self.get_mom6(): [ds, opened, outcome].
get_mom6(v, year, month, src) ==
    LET st == RunLoop([ds |-> Unbound, opened |-> <<>>, outcome |-> "running"],
                      mom6_hindcast(MomDir(src)), 1, v, year, month)
    IN  IF st.outcome = "running" THEN AfterLoop(st, src) ELSE st

\* The forecast fields read from a file: member m at lead l holds the
\* member's level plus the lead's effect.
ForecastFields ==
    {[m \in Members |-> [l \in Leads |-> Int2Rat(a[m] + b[l])]] :
        a \in [Members -> Vals], b \in [Leads -> Vals]}

BVals == {-1, 1, 3}

\* The boundary datasets read by get_mom6_tercile (lines 147-167): the two
\* boundaries, the same at every lead.
TercileStore ==
    {[f_lowmid |-> [l \in Leads |-> Int2Rat(lo)],
      f_midhigh |-> [l \in Leads |-> Int2Rat(hi)]] : lo \in BVals, hi \in BVals}

LeadBinChoices ==
    {NoBins, Bins(DefaultLeadBins), Bins(<<0, 1, 3>>), Bins(<<1, 3>>)}

\* Lines 264-268: ds_data = self.get_mom6(); da_data = ds_data[var].isel(init=0).
\* isel(init=0) of an empty init axis is an IndexError.
LoadData ==
    /\ pc = "start"
    /\ LET r == get_mom6(var, iyear, imonth, source)
       IN  /\ ds' = r.ds
           /\ opened' = r.opened
           /\ IF r.outcome = "returned" /\ r.ds.init = "one"
              THEN /\ da_data' \in ForecastFields
                   /\ outcome' = "running"
                   /\ pc' = "loaded"
              ELSE /\ da_data' = da_data
                   /\ outcome' = IF r.outcome = "returned" THEN "IndexError"
                                 ELSE r.outcome
                   /\ pc' = "done"
    /\ UNCHANGED <<var, iyear, imonth, source, file_list, fidx, ds_static>>
    /\ UNCHANGED <<lead_bins, da_binned, da_mean, da_std, ds_tercile,
                   ds_tercile_binned, tercile_prob, tercile_prob_max>>
    /\ UNCHANGED builderVars

\* Lines 270-308: bin the forecast, fit the normal distribution, read and
\* bin the tercile boundaries.
BinAndFit ==
    /\ pc = "loaded"
    /\ LET binned == [m \in DOMAIN da_data |-> Binned(da_data[m], lead_bins)]
       IN  /\ da_binned' = binned
           /\ da_mean' = MemberMean(binned)
           /\ da_std' = MemberStd(binned)
    /\ \E t \in TercileStore :
          /\ ds_tercile' = t
          /\ ds_tercile_binned' =
                [f_lowmid |-> Binned(t.f_lowmid, lead_bins),
                 f_midhigh |-> Binned(t.f_midhigh, lead_bins)]
    /\ pc' = "fitted"
    /\ UNCHANGED <<var, iyear, imonth, source, file_list, fidx, ds, ds_static,
                   opened, outcome>>
    /\ UNCHANGED <<lead_bins, da_data, tercile_prob, tercile_prob_max>>
    /\ UNCHANGED builderVars

\* Lines 310-348: the three probabilities and the dominant category.
TercileProb ==
    /\ pc = "fitted"
    /\ LET low == LowTercileProb(da_mean, da_std, ds_tercile_binned)
           up == UpTercileProb(da_mean, da_std, ds_tercile_binned)
           mid == MidTercileProb(low, up)
       IN  /\ tercile_prob' = Concat(low, mid, up)
           /\ tercile_prob_max' = ProbMax(Concat(low, mid, up))
    /\ outcome' = "returned"
    /\ pc' = "done"
    /\ UNCHANGED <<var, iyear, imonth, source, file_list, fidx, ds, ds_static,
                   opened>>
    /\ UNCHANGED <<lead_bins, da_data, da_binned, da_mean, da_std, ds_tercile,
                   ds_tercile_binned>>
    /\ UNCHANGED builderVars

\* Lines 270-286 alone: the Lead-Time Binner applied to the forecast.
Binner ==
    /\ pc = "loaded"
    /\ da_binned' = [m \in DOMAIN da_data |-> Binned(da_data[m], lead_bins)]
    /\ pc' = "binned"
    /\ UNCHANGED <<var, iyear, imonth, source, file_list, fidx, ds, ds_static,
                   opened, outcome>>
    /\ UNCHANGED <<lead_bins, da_data, da_mean, da_std, ds_tercile,
                   ds_tercile_binned, tercile_prob, tercile_prob_max>>
    /\ UNCHANGED builderVars

\* ------------------------------------------------ mom6_regional_tercile

MOM6_DIR == RAW_DIR

MOM6_TERCILE_DIR == <<"/", "D", "a", "t", "a", "s", "e", "t", "s", ".", "p", "r", "i", "v", "a", "t", "e", "/", "r", "e", "g", "i", "o", "n", "a", "l", "_", "m", "o", "m", "6", "/", "t", "e", "r", "c", "i", "l", "e", "_", "c", "a", "l", "c", "u", "l", "a", "t", "i", "o", "n", "/">>

REGION_NC == <<".", "r", "e", "g", "i", "o", "n", ".", "n", "c">>

\* Bounds of the hindcast read by the script: the grid cells (xh, yh) and
\* the initializations of a file.
NCells == 2

NInits == 2

Cells == 1..NCells

Inits == 1..NInits

\* The keys of the mask store, in order.
MaskKeys == <<"regA", "areacello", "regB">>

\* The mask stores read: two regions, one of the first cell and one of the
\* whole grid, and the cell areas 1, 2, ...
MaskStores ==
    {[regA |-> [c \in Cells |-> c = 1], regB |-> [c \in Cells |-> TRUE],
      areacello |-> [c \in Cells |-> c]],
     [regA |-> [c \in Cells |-> TRUE], regB |-> [c \in Cells |-> c = 1],
      areacello |-> [c \in Cells |-> c]]}

\* The hindcast fields ds[varname] read from a file, at one lead: cell c,
\* initialization i, member m holds the cell's level plus the year's
\* anomaly i-1 plus the member's offset m-1.
HindcastFields ==
    {[c \in Cells |-> [i \in Inits |-> [m \in Members |->
            Int2Rat(f[c] + (i - 1) + (m - 1))]]] : f \in [Cells -> Vals]}

\* Lines 34-37.
RECURSIVE VarFileList(_, _)
VarFileList(files, v) ==
    IF files = <<>> THEN <<>>
    ELSE (IF IsSubstr(v, Head(files)) THEN <<Head(files)>> ELSE <<>>)
            \o VarFileList(Tail(files), v)

\* f'{MOM6_TERCILE_DIR}{file[len(MOM6_DIR):-3]}.region.nc'
OutPath(fname) ==
    MOM6_TERCILE_DIR \o SubSeq(fname, Len(MOM6_DIR) + 1, Len(fname) - 3) \o REGION_NC

Bool2Int(b) == IF b THEN 1 ELSE 0

\* (ds_mask[region]*da_area).sum(dim=['xh','yh'])
MaskArea(mask, area) ==
    RSum([c \in DOMAIN mask |-> Int2Rat(Bool2Int(mask[c]) * area[c])], DOMAIN mask)

\* (da*ds_mask[region]*da_area).sum(dim=['xh','yh'])/(ds_mask[region]*da_area)
\*    .sum(dim=['xh','yh']), lines 53-56.  A `da` that has lost its xh, yh
\* dimensions is broadcast against the mask before the sum.
RegionalMean(x, mask, area) ==
    [dims |-> "pooled",
     val |-> [i \in Inits |-> [m \in Members |->
        LET weighted ==
                [c \in DOMAIN mask |->
                    RMul(IF x.dims = "grid" THEN x.val[c][i][m] ELSE x.val[i][m],
                         Int2Rat(Bool2Int(mask[c]) * area[c]))]
        IN  RDiv(RSum(weighted, DOMAIN mask), MaskArea(mask, area))]]]

\* .stack(allens=('init','member')): init-major order.
Stack(v) ==
    [k \in 1..(Cardinality(DOMAIN v) * Cardinality(DOMAIN v[1])) |->
        v[((k - 1) \div Cardinality(DOMAIN v[1])) + 1]
         [((k - 1) % Cardinality(DOMAIN v[1])) + 1]]

\* numpy's linear quantile a/b of a sample: with the sample sorted and
\* h = (a/b)(N-1), x[floor h] + (h - floor h)(x[floor h + 1] - x[floor h]).
Quantile(sample, a, b) ==
    LET x == SortSeq(sample, LAMBDA u, v : RLt(u, v))
        h == Rat(a * (Len(x) - 1), b)
        lo == h.n \div h.d
        hi == IF lo + 1 < Len(x) THEN lo + 1 ELSE lo
    IN  RAdd(x[lo + 1], RMul(RSub(h, Int2Rat(lo)), RSub(x[hi + 1], x[lo + 1])))

\* Lines 59-67: <<the 1/3 quantile, the 2/3 quantile>> of the pooled sample.
Tercile(x) ==
    <<Quantile(Stack(x.val), 1, 3), Quantile(Stack(x.val), 2, 3)>>

\* A faulty variant of ExceptPermissionError: no except clause, the
\* exception ends the script.
NoExceptClause(out, path) == [printed |-> out, raised |-> TRUE]

\* The except clause of lines 94-95: the diagnostic is printed and the
\* exception goes no further.
ExceptPermissionError(out, path) ==
    [printed |-> Append(out, <<"is used by other scripts", path>>),
     raised |-> FALSE]

\* Lines 23-37: the argument, the file list and the files of the variable.
Start ==
    /\ pc = "start"
    /\ file_list' = mom6_hindcast(MOM6_DIR)
    /\ var_file_list' = VarFileList(mom6_hindcast(MOM6_DIR), varname)
    /\ file' = 1
    /\ pc' = IF VarFileList(mom6_hindcast(MOM6_DIR), varname) = <<>>
             THEN "done" ELSE "file"
    /\ UNCHANGED <<var, iyear, imonth, source, fidx, ds, ds_static, opened,
                   outcome>>
    /\ UNCHANGED <<varname, ds_mask, da, region, reg_tercile_list, reg_list,
                   written, printed>>
    /\ UNCHANGED probVars

\* Lines 41-48: open the file, read the masks, take da = ds[varname].
OpenFile ==
    /\ pc = "file"
    /\ \E field \in HindcastFields :
          /\ ds' = field
          /\ da' = [dims |-> "grid", val |-> field]
    /\ reg_tercile_list' = <<>>
    /\ reg_list' = <<>>
    /\ region' = 1
    /\ pc' = "regions"
    /\ UNCHANGED <<var, iyear, imonth, source, file_list, fidx, ds_static,
                   opened, outcome>>
    /\ UNCHANGED <<varname, var_file_list, file, ds_mask, written, printed>>
    /\ UNCHANGED probVars

\* Lines 49-71, one iteration for a region key.
RegionStep ==
    /\ pc = "regions"
    /\ region <= Len(MaskKeys)
    /\ MaskKeys[region] # "areacello"
    /\ LET mean == RegionalMean(da, ds_mask[MaskKeys[region]], ds_mask.areacello)
       IN  /\ da' = mean
           /\ reg_tercile_list' = Append(reg_tercile_list, Tercile(mean))
    /\ reg_list' = Append(reg_list, MaskKeys[region])
    /\ region' = region + 1
    /\ UNCHANGED <<var, iyear, imonth, source, pc, file_list, fidx, ds,
                   ds_static, opened, outcome>>
    /\ UNCHANGED <<varname, var_file_list, file, ds_mask, written, printed>>
    /\ UNCHANGED probVars

\* Lines 49-50, one iteration for the key 'areacello'.
RegionSkip ==
    /\ pc = "regions"
    /\ region <= Len(MaskKeys)
    /\ MaskKeys[region] = "areacello"
    /\ region' = region + 1
    /\ UNCHANGED <<var, iyear, imonth, source, pc, file_list, fidx, ds,
                   ds_static, opened, outcome>>
    /\ UNCHANGED <<varname, var_file_list, file, ds_mask, da,
                   reg_tercile_list, reg_list, written, printed>>
    /\ UNCHANGED probVars

\* The position after the body of the file loop.
NextFile == IF file + 1 > Len(var_file_list) THEN "done" ELSE "file"

\* Lines 73-93: build ds_tercile, print the output line, write the file.
WriteFile ==
    /\ pc = "regions"
    /\ region > Len(MaskKeys)
    /\ printed' = Append(printed, <<"output", OutPath(var_file_list[file])>>)
    /\ written' = Append(written, OutPath(var_file_list[file]))
    /\ file' = file + 1
    /\ pc' = NextFile
    /\ UNCHANGED <<var, iyear, imonth, source, file_list, fidx, ds, ds_static,
                   opened, outcome>>
    /\ UNCHANGED <<varname, var_file_list, ds_mask, da, region,
                   reg_tercile_list, reg_list>>
    /\ UNCHANGED probVars

\* Lines 73-95 when to_netcdf raises PermissionError: the destination is
\* held by another process.
WriteLocked ==
    /\ pc = "regions"
    /\ region > Len(MaskKeys)
    /\ LET r == ExceptPermissionError(
                    Append(printed, <<"output", OutPath(var_file_list[file])>>),
                    OutPath(var_file_list[file]))
       IN  /\ printed' = r.printed
           /\ outcome' = IF r.raised THEN "PermissionError" ELSE outcome
           /\ pc' = IF r.raised THEN "done" ELSE NextFile
           /\ file' = IF r.raised THEN file ELSE file + 1
    /\ UNCHANGED <<var, iyear, imonth, source, file_list, fidx, ds, ds_static,
                   opened>>
    /\ UNCHANGED <<varname, var_file_list, ds_mask, da, region,
                   reg_tercile_list, reg_list, written>>
    /\ UNCHANGED probVars

\* ------------------------------------------------------- specifications

GetIdle ==
    /\ pc = "start"
    /\ file_list = <<>>
    /\ fidx = 0
    /\ ds = Unbound
    /\ ds_static = FALSE
    /\ opened = <<>>
    /\ outcome = "running"

ProbIdle ==
    /\ da_data = None
    /\ da_binned = None
    /\ da_mean = None
    /\ da_std = None
    /\ ds_tercile = None
    /\ ds_tercile_binned = None
    /\ tercile_prob = None
    /\ tercile_prob_max = None

BuilderIdle ==
    /\ varname = <<>>
    /\ var_file_list = <<>>
    /\ file = 0
    /\ ds_mask = None
    /\ da = None
    /\ region = 0
    /\ reg_tercile_list = <<>>
    /\ reg_list = <<>>
    /\ written = <<>>
    /\ printed = <<>>

\* The variable names asked of get_mom6.
GetVarNames ==
    {TOS, TOB, <<"t">>, <<"t", "o">>, <<"o">>, <<"s", "s", "h">>}

\* get_mom6 alone, one loop iteration per step, for every request.
InitGet ==
    /\ var \in GetVarNames
    /\ iyear = 2000
    /\ imonth \in 1..12
    /\ source \in {"raw", "regrid"}
    /\ lead_bins = NoBins
    /\ GetIdle /\ ProbIdle /\ BuilderIdle

NextGet == Begin \/ LoopMatch \/ LoopSkip \/ Finish

SpecGet == InitGet /\ [][NextGet]_vars

\* calculate_tercile_prob of a forecast object of variable tos.
Init ==
    /\ var = TOS
    /\ iyear = 2000
    /\ imonth \in {1, 2, 3}
    /\ source = "regrid"
    /\ lead_bins \in LeadBinChoices
    /\ GetIdle /\ ProbIdle /\ BuilderIdle

Next == LoadData \/ BinAndFit \/ TercileProb

Spec == Init /\ [][Next]_vars

\* The monthly lead axis of a forecast file: range(0,12).
Leads12 == 0..11

\* The Lead-Time Binner on a loaded one-member forecast of 12 monthly
\* leads, with the seasonal lead_bins [0, 3, 6, 9, 12].
InitBin ==
    /\ var = TOS
    /\ iyear = 2000
    /\ imonth = 3
    /\ source = "regrid"
    /\ lead_bins = Bins(DefaultLeadBins)
    /\ pc = "loaded"
    /\ file_list = <<>>
    /\ fidx = 0
    /\ ds = [file |-> REGRID_DIR \o VarFiles(TOS)[1], init |-> "one",
             static |-> FALSE]
    /\ ds_static = FALSE
    /\ opened = <<REGRID_DIR \o VarFiles(TOS)[1]>>
    /\ outcome = "running"
    /\ da_data \in {<<[l \in Leads12 |-> Int2Rat(b[l])]>> : b \in [Leads12 -> Vals]}
    /\ da_binned = None
    /\ da_mean = None
    /\ da_std = None
    /\ ds_tercile = None
    /\ ds_tercile_binned = None
    /\ tercile_prob = None
    /\ tercile_prob_max = None
    /\ BuilderIdle

NextBin == Binner

SpecBin == InitBin /\ [][NextBin]_vars

\* The batch script, for a variable name and a mask store.
InitBuilder ==
    /\ var = <<>>
    /\ iyear = 0
    /\ imonth = 0
    /\ source = "raw"
    /\ lead_bins = NoBins
    /\ GetIdle /\ ProbIdle
    /\ varname \in {TOS, TOB, <<"s", "s", "h">>}
    /\ ds_mask \in MaskStores
    /\ var_file_list = <<>>
    /\ file = 0
    /\ da = None
    /\ region = 0
    /\ reg_tercile_list = <<>>
    /\ reg_list = <<>>
    /\ written = <<>>
    /\ printed = <<>>

NextBuilder ==
    Start \/ OpenFile \/ RegionStep \/ RegionSkip \/ WriteFile \/ WriteLocked

SpecBuilder == InitBuilder /\ [][NextBuilder]_vars

\* ---------------------------------------------------------------- get_mom6

\* The file of exactly the requested variable and initialization month.
ExactFile == MomDir(source) \o var \o FORECASTS_I \o IntToStr(imonth) \o DOT_NC

Candidates == mom6_hindcast(MomDir(source))

HasExactFile == \E k \in DOMAIN Candidates : Candidates[k] = ExactFile

\* The files the selection of get_mom6 matches.
Matching ==
    {k \in DOMAIN Candidates :
        imon_flag(Candidates[k], imonth) /\ var_flag(Candidates[k], var)}

\* C2: when no candidate file is the file of exactly the requested
\* variable and month, get_mom6 opens no forecast file and ends in an
\* explicit NotFound failure, never returning a dataset or failing on an
\* unset value.
C2_NotFound ==
    ~HasExactFile =>
        /\ opened = <<>>
        /\ (pc = "done" => outcome = "NotFound")

\* C3: when more than one candidate file matches the selection, get_mom6
\* ends in an explicit AmbiguousMatch failure and never returns the dataset
\* of the last matching file.
C3_Ambiguous ==
    (Cardinality(Matching) > 1 /\ pc = "done") =>
        /\ outcome = "AmbiguousMatch"
        /\ ~(/\ outcome = "returned"
             /\ \E k \in Matching :
                   /\ ds.file = Candidates[k]
                   /\ \A h \in Matching : h <= k)

\* ------------------------------------------------------- Lead-Time Binner

Mean3(arr, l) ==
    RDiv(RAdd(RAdd(arr[l], arr[l + 1]), arr[l + 2]), Int2Rat(3))

\* C8: a 12-point lead axis 0..11 binned with [0,3,6,9,12] yields exactly
\* the 4 windows 0..3, each the mean of 3 consecutive lead values.
C8_Seasonal ==
    (pc = "binned" /\ DOMAIN da_data[1] = Leads12
        /\ lead_bins = Bins(DefaultLeadBins)) =>
        \A m \in DOMAIN da_data :
            /\ DOMAIN da_binned[m] = 0..3
            /\ \A w \in 0..3 :
                  \E l \in 0..9 : da_binned[m][w] = Mean3(da_data[m], l)

\* ------------------------------------------------- calculate_tercile_prob

Zero == Int2Rat(0)

Returned == pc = "done" /\ outcome = "returned"

\* The windows of the output.
Windows == DOMAIN tercile_prob

\* The Gaussian fit of window w is defined: a mean and a positive spread.
FitDefined(w) ==
    ~IsNaN(da_mean[w]) /\ ~IsNaN(da_std[w].sq) /\ da_std[w].sq.n > 0

\* The boundaries of window w are valid: defined and monotonic.
Monotonic(w) ==
    RLe(ds_tercile_binned.f_lowmid[w], ds_tercile_binned.f_midhigh[w])

InUnit(x) == RLe(Zero, x) /\ RLe(x, One)

\* C4: with f_lowmid <= f_midhigh and a defined Gaussian fit, the three
\* entries of tercile_prob of every lead window sum to 1 and each lies in
\* [0,1]; the entries stand in the order lower, middle, upper under the
\* labels [-1, 0, 1], the upper one being 1 minus its complement and the
\* middle one 1 - lower - upper.
C4_SumToOne ==
    Returned =>
        \A w \in Windows :
            (FitDefined(w) /\ Monotonic(w)) =>
                LET p == tercile_prob[w]
                IN  /\ Len(p) = 3
                    /\ RAdd(RAdd(p[1], p[2]), p[3]) = One
                    /\ \A i \in 1..3 : InUnit(p[i])
                    /\ TercileIndex = <<-1, 0, 1>>
                    /\ p[1] = NormCdf(ds_tercile_binned.f_lowmid[w],
                                      da_mean[w], da_std[w])
                    /\ p[3] = RSub(One, NormCdf(ds_tercile_binned.f_midhigh[w],
                                                da_mean[w], da_std[w]))
                    /\ p[2] = RSub(RSub(One, p[1]), p[3])

\* A window with valid boundaries, a defined fit and three positive
\* probabilities.
C4_Witness ==
    /\ Returned
    /\ \E w \in Windows :
          /\ FitDefined(w) /\ Monotonic(w)
          /\ \A i \in 1..3 : RLt(Zero, tercile_prob[w][i])

\* The label-weighted maximum of three probabilities, stated from the
\* claim: some category holds the maximum and x is its label times it.
IsSignedMax(x, p) ==
    \E i \in 1..3 :
        /\ \A j \in 1..3 : RLe(p[j], p[i])
        /\ x = RMul(Int2Rat(<<-1, 0, 1>>[i]), p[i])

\* C5: for every lead window tercile_prob_max is the label of a maximizing
\* category times the maximum of the three probabilities (negative when the
\* lower tercile dominates, 0 for the middle, positive for the upper), and
\* lies within [-1,1].
C5_SignedMax ==
    Returned =>
        \A w \in Windows :
            /\ IsSignedMax(tercile_prob_max[w], tercile_prob[w])
            /\ RLe(Int2Rat(-1), tercile_prob_max[w])
            /\ RLe(tercile_prob_max[w], One)

\* The three probabilities of window w are numbers.
ProbDefined(w) == \A i \in 1..3 : ~IsNaN(tercile_prob[w][i])

IsMaxOf(x, p) == (\E i \in 1..3 : p[i] = x) /\ (\A j \in 1..3 : RLe(p[j], x))

\* C6: when categories tie for the maximum probability the first one in
\* the order [-1, 0, 1] wins: a tie that includes the lower tercile gives
\* minus the maximum, a middle/upper tie gives 0; windows with the same
\* probabilities have the same tercile_prob_max.
C6_TieBreak ==
    Returned =>
        /\ \A w \in Windows :
              ProbDefined(w) =>
                  LET p == tercile_prob[w]
                  IN  /\ (IsMaxOf(p[1], p) /\ (p[2] = p[1] \/ p[3] = p[1]))
                          => tercile_prob_max[w] = RSub(Zero, p[1])
                      /\ (IsMaxOf(p[2], p) /\ p[3] = p[2] /\ p[1] # p[2])
                          => tercile_prob_max[w] = Zero
        /\ \A w1, w2 \in Windows :
              tercile_prob[w1] = tercile_prob[w2]
                  => tercile_prob_max[w1] = tercile_prob_max[w2]

\* A window where the middle and the upper tercile tie for the maximum.
C6_Witness ==
    /\ Returned
    /\ \E w \in Windows :
          /\ ProbDefined(w)
          /\ IsMaxOf(tercile_prob[w][2], tercile_prob[w])
          /\ tercile_prob[w][3] = tercile_prob[w][2]
          /\ tercile_prob[w][1] # tercile_prob[w][2]

\* Further tie cases, reached as well.
C6_LowerMiddleTie ==
    /\ Returned
    /\ \E w \in Windows :
          /\ ProbDefined(w)
          /\ IsMaxOf(tercile_prob[w][1], tercile_prob[w])
          /\ tercile_prob[w][2] = tercile_prob[w][1]

C6_LowerUpperTie ==
    /\ Returned
    /\ \E w \in Windows :
          /\ ProbDefined(w)
          /\ IsMaxOf(tercile_prob[w][1], tercile_prob[w])
          /\ tercile_prob[w][3] = tercile_prob[w][1]

\* The input entries of member m whose lead lies in (lo, hi].
InInterval(lo, hi) == {l \in DOMAIN da_data[1] : lo < l /\ l <= hi}

ZeroSpread(w) ==
    /\ ~IsNaN(da_mean[w])
    /\ da_std[w].sq = Zero
    /\ ~IsNaN(ds_tercile_binned.f_lowmid[w])
    /\ ~IsNaN(ds_tercile_binned.f_midhigh[w])

\* C10: a window of zero ensemble spread has a defined outcome: no
\* probability and no tercile_prob_max is NaN, and with the members
\* strictly between the boundaries the probabilities are lower=0, middle=1,
\* upper=0.
C10_ZeroSpreadDefined ==
    Returned =>
        \A w \in Windows :
            ZeroSpread(w) =>
                /\ ProbDefined(w)
                /\ ~IsNaN(tercile_prob_max[w])
                /\ (/\ RLt(ds_tercile_binned.f_lowmid[w], da_mean[w])
                    /\ RLt(da_mean[w], ds_tercile_binned.f_midhigh[w]))
                       => tercile_prob[w] = <<Zero, One, Zero>>

\* ------------------------------------------- Climatological Boundary Builder

\* The cells of a region of the mask store.
RegionCells(r) == {c \in Cells : ds_mask[r][c]}

\* sum(value*mask*area)/sum(mask*area) of the original gridded variable
\* over the cells of region r, for initialization i and member m.
AreaMean(r, i, m) ==
    RDiv(RSum([c \in Cells |-> RMul(ds[c][i][m], Int2Rat(ds_mask.areacello[c]))],
              RegionCells(r)),
         RSum([c \in Cells |-> Int2Rat(ds_mask.areacello[c])], RegionCells(r)))

\* C1: for every region of the mask store, whatever its position in the
\* region loop, the regional value the terciles are computed from is the
\* area-weighted mean of the original gridded variable over the region's own
\* masked cells, for every (init, member).
C1_RegionalMean ==
    (pc = "regions" /\ reg_list # <<>>) =>
        /\ da.dims = "pooled"
        /\ \A i \in Inits, m \in Members :
              da.val[i][m] = AreaMean(reg_list[Len(reg_list)], i, m)

\* The output path of the k-th file of the variable.
OutPathOf(k) == OutPath(var_file_list[k])

\* The files whose write has been attempted, in order.
Attempted == SelectSeq(printed, LAMBDA line : line[1] = "output")

Diagnosed(path) ==
    \E k \in DOMAIN printed : printed[k] = <<"is used by other scripts", path>>

Count(seq, x) == Cardinality({k \in DOMAIN seq : seq[k] = x})

\* C9: a PermissionError of the write of one file is caught: the write is
\* skipped with a diagnostic and not retried, and the batch goes on, so that
\* at the end every file of the variable has been processed once, in order,
\* and each is either written or diagnosed.
C9_WriteConflict ==
    /\ outcome = "running"
    /\ \A k \in DOMAIN var_file_list :
          /\ Count(Attempted, <<"output", OutPathOf(k)>>) <= 1
          /\ Count(written, OutPathOf(k)) <= 1
          /\ ~(Count(written, OutPathOf(k)) = 1 /\ Diagnosed(OutPathOf(k)))
    /\ pc = "done" =>
          /\ Attempted = [k \in DOMAIN var_file_list |-> <<"output", OutPathOf(k)>>]
          /\ \A k \in DOMAIN var_file_list :
                Count(written, OutPathOf(k)) = 1 \/ Diagnosed(OutPathOf(k))

\* The batch has ended; the write of one file was skipped on a conflict and
\* a later file was written.
C9_Witness ==
    /\ pc = "done"
    /\ \E k, h \in DOMAIN var_file_list :
          /\ k < h
          /\ Diagnosed(OutPathOf(k))
          /\ Count(written, OutPathOf(h)) = 1

====
